---- MODULE Spec2Model ----
(***************************************************************************)
(* Track2Do: the export orchestrator of src/components/ExportPanel          *)
(* (TrackList.tsx lines 601-1245), modelled as a state machine.             *)
(*                                                                         *)
(* The component is a React function component.  Its state is the five     *)
(* useState cells; every handler runs on the single UI thread and is       *)
(* atomic between two suspension points (an awaited gateway call or a      *)
(* timer).  A handler reads the state cells of the render it was created   *)
(* in: the `poll` closure keeps the pollTimeoutId of the render in which   *)
(* startExport was clicked, for as long as its loop lives.                 *)
(*                                                                         *)
(* The snapshot collection of src/hooks/useSnapshots.ts, with its store    *)
(* src/utils/snapshotManager.ts, is the second state machine of the        *)
(* module.  The two share no state: Spec runs the export orchestrator      *)
(* with the snapshot collection at rest, SnapshotSpec runs the snapshot    *)
(* collection with the export orchestrator at rest.                        *)
(*                                                                         *)
(* StoreSpec runs the three methods of SnapshotManager against the         *)
(* project folder, with the session, the directory and the disk as the     *)
(* environment of each call.                                               *)
(*                                                                         *)
(* The export presets of src/utils/presetManager.ts, with the handlers of  *)
(* src/components/PresetManager.tsx that call it, are the last state       *)
(* machine: PresetSpec runs the handlers from an empty store, each split   *)
(* where it awaits the write of the store; PageSpec applies                *)
(* getPaginatedPresets to stores of every size up to MaxStored.            *)
(*                                                                         *)
(* DialogSpec runs ExportDialog, the modal variant of the orchestrator in  *)
(* the same file (TrackList.tsx lines 174-600), over the same state cells: *)
(* it keeps no timer id and holds no progress object before the first      *)
(* status response.                                                        *)
(*                                                                         *)
(* ConnectionSpec runs the hook of src/hooks/useProToolsConnection.ts      *)
(* over the two read paths of src/services/api/sessionApi.ts: its status   *)
(* checks and track requests are awaited gateway calls that may answer in  *)
(* any order.                                                              *)
(*                                                                         *)
(* ReopenSpec runs the snapshot collection as SnapshotSpec does, in a      *)
(* session whose snapshots.json already holds one snapshot when the hook   *)
(* mounts.                                                                 *)
(***************************************************************************)
EXTENDS Integers, Sequences, FiniteSets, TLC

(* ------------------------------ bounds -------------------------------- *)

\* startExport invocations that reach the gateway, over a whole behaviour
MaxStarts == 2
\* status requests the gateway answers with pending or running, over a
\* whole behaviour
MaxRunning == 2
\* stopExportTask requests awaiting their response at one time
MaxStops == 1
\* createSnapshot calls that add a snapshot, over a whole behaviour
MaxSnapshots == 2
\* saveSnapshots calls the hook issues, over a whole behaviour
MaxSaves == 3

\* presets in the store when getPaginatedPresets is called
MaxStored == 7
\* the highest page number asked for
MaxPage == 4
\* savePresets calls issued, over a whole behaviour
MaxPresetOps == 2
\* checkStatus calls issued, over a whole behaviour
MaxChecks == 3
\* getTracks calls awaiting their response at one time
MaxTrackCalls == 2

(* ------------------------------ values -------------------------------- *)

\* the task ids the gateway hands out, one per accepted export/start
TaskIds == 1..MaxStarts
\* task_id: '' of the initial progress object, and an absent task_id
NoTask == 0
\* pollTimeoutId = null; setTimeout returns 1, 2, 3, ...
NoTimer == 0
\* error = null
NoError == "null"

\* ExportProgress.result === undefined
NoResult ==
    [present |-> FALSE, exported_files |-> <<>>, error_message |-> "undefined"]

\* an ExportResult with every file exported and no error_message
FullResult ==
    [present |-> TRUE, exported_files |-> <<"a.wav", "b.wav">>, error_message |-> "undefined"]

\* an ExportResult with a file missing and an error_message
PartialResult ==
    [present |-> TRUE, exported_files |-> <<"a.wav">>, error_message |-> "disk full"]

\* the ExportResult values the gateway may attach to a task
Results == {NoResult, FullResult, PartialResult}

\* exportProgress = null
NullProgress ==
    [task_id |-> -1, status |-> "null", progress |-> 0, result |-> NoResult]

\* the initial progress object startExport installs before the request
InitialProgress ==
    [task_id |-> NoTask, status |-> "Preparing export...", progress |-> 0, result |-> NoResult]

\* the status strings a gateway response may carry; "paused" stands for any
\* value outside the six the client knows
Statuses ==
    {"pending", "running", "completed", "completed_with_errors", "failed", "cancelled", "paused"}

\* the four terminal statuses of an ExportTask
TerminalStatuses == {"completed", "completed_with_errors", "failed", "cancelled"}

\* the statuses of a task that has finished its work and may carry a result
FinishedStatuses == {"completed", "completed_with_errors", "failed"}

\* the progress percentage the gateway reports for task t while the task is
\* under way: 60, 40, 20, ... (a later task has fewer snapshots done when
\* polled); one value per task, so no task's reports ever decrease
ProgressOf(t) == 80 - 20 * t

\* the status and result a finished task is reported with: a completed task
\* has no error_message, a failed task has one if it has a result at all, a
\* task completed with errors has a result, with or without error_message
FinishedReports ==
    { <<"completed", NoResult>>, <<"completed", FullResult>>,
      <<"failed", NoResult>>, <<"failed", PartialResult>>,
      <<"completed_with_errors", FullResult>>, <<"completed_with_errors", PartialResult>> }

\* the ExportTask objects the gateway may report for task t: a task under way
\* is part done and has no result, a finished task may carry one
ExportTasks(t) ==
    [task_id : {t}, status : Statuses \ FinishedStatuses, progress : {ProgressOf(t)},
     result : {NoResult}]
    \cup
    { [task_id |-> t, status |-> f[1], progress |-> 100, result |-> f[2]] : f \in FinishedReports }

\* JavaScript truthiness of an optional string
Truthy(s) == s \notin {"undefined", ""}

(* ------------------------------ text ---------------------------------- *)

\* the texts typed into a settings field, as sequences of characters
Empty == <<>>
Blank == <<" ", " ">>
Padded == <<" ", "x", " ">>

\* what the operator has selected and typed when Start Export runs:
\* selectedSnapshots.length, exportSettings.output_path and
\* exportSettings.mix_source_name
Form(selected, output_path, mix_source_name) ==
    [selected |-> selected, output_path |-> output_path, mix_source_name |-> mix_source_name]

Forms ==
    { Form(2, Padded, Padded),
      Form(0, Padded, Padded), Form(0, Empty, Blank),
      Form(2, Empty, Padded), Form(2, Blank, Padded), Form(2, Blank, Empty),
      Form(2, Padded, Empty), Form(2, Padded, Blank) }

RECURSIVE TrimStart(_)
TrimStart(s) ==
    IF s # <<>> /\ Head(s) = " " THEN TrimStart(Tail(s)) ELSE s

RECURSIVE TrimEnd(_)
TrimEnd(s) ==
    IF s # <<>> /\ s[Len(s)] = " " THEN TrimEnd(SubSeq(s, 1, Len(s) - 1)) ELSE s

\* String.prototype.trim
Trim(s) == TrimEnd(TrimStart(s))

(* ----------------------------- snapshots ------------------------------ *)

\* the id createSnapshot gives the k-th snapshot it adds:
\* `snapshot_${Date.now()}_${random}`, never the same twice
SnapshotId(k) == "snapshot_" \o ToString(k)

\* the ids a caller may pass; an id not given out yet, or of a deleted
\* snapshot, matches no snapshot
SnapshotIds == { SnapshotId(k) : k \in 1..MaxSnapshots }

\* the names a caller may pass, as sequences of characters
Names == { <<>>, <<"a">>, <<"A">> }

\* updates.name of an update that carries no name
Undefined == <<"undefined">>

\* String.prototype.toLowerCase, character by character
ToLowerCaseChar(c) ==
    CASE c = "A" -> "a"
      [] c = "B" -> "b"
      [] OTHER -> c

ToLowerCase(name) == [i \in 1..Len(name) |-> ToLowerCaseChar(name[i])]

\* the message of the Error createSnapshot and updateSnapshot throw
DuplicateName == "already exists, please use a different name"
\* the call returned normally
NoThrow == "none"

\* new Date().toISOString() at the n-th change of the collection
Timestamp(n) == "T" \o ToString(n)

\* the snapshot createSnapshot makes as its k-th, at the n-th change
NewSnapshot(k, name, n) ==
    [id |-> SnapshotId(k), name |-> name, createdAt |-> Timestamp(n),
     updatedAt |-> Timestamp(n)]

\* a snapshot that an earlier run of the application made and saved
PersistedSnapshot ==
    [id |-> SnapshotId(0), name |-> <<"b">>, createdAt |-> Timestamp(0),
     updatedAt |-> Timestamp(0)]

\* a comparison of names that minds the case of the letters
NameTakenCaseSensitive(list, name) ==
    \E i \in 1..Len(list) : list[i].name = name

\* snapshots.find(snapshot => snapshot.name.toLowerCase() === name.toLowerCase())
NameTaken(list, name) ==
    \E i \in 1..Len(list) : ToLowerCase(list[i].name) = ToLowerCase(name)

\* snapshots.find(snapshot => snapshot.id !== id &&
\*                            snapshot.name.toLowerCase() === name.toLowerCase())
NameTakenByOther(list, id, name) ==
    \E i \in 1..Len(list) :
       list[i].id # id /\ ToLowerCase(list[i].name) = ToLowerCase(name)

\* {...snapshot, ...updates, updatedAt: now}, where name is updates.name
Updated(snapshot, name, now) ==
    [snapshot EXCEPT !.name = IF name # Undefined THEN name ELSE @, !.updatedAt = now]

\* an update that takes the snapshot out and puts its new version last
MergedMovingToEnd(list, id, name, now) ==
    SelectSeq(list, LAMBDA x : x.id # id)
    \o [i \in 1..Len(SelectSeq(list, LAMBDA x : x.id = id)) |->
          Updated(SelectSeq(list, LAMBDA x : x.id = id)[i], name, now)]

\* snapshots.map(snapshot => snapshot.id === id
\*                  ? {...snapshot, ...updates, updatedAt: now} : snapshot)
Merged(list, id, name, now) ==
    [i \in 1..Len(list) |->
        IF list[i].id = id THEN Updated(list[i], name, now) ELSE list[i]]

\* a removal by index: splice(findIndex(...), 1), which removes the last
\* snapshot when the id is absent
WithoutBySplice(list, id) ==
    IF \E i \in 1..Len(list) : list[i].id = id
    THEN SelectSeq(list, LAMBDA x : x.id # id)
    ELSE SubSeq(list, 1, Len(list) - 1)

\* snapshots.filter(snapshot => snapshot.id !== id)
Without(list, id) == SelectSeq(list, LAMBDA x : x.id # id)

(* JSON.stringify and JSON.parse of a Snapshot[], on a text made of tokens:
   brackets, braces, commas, quotes, ids, and the characters of the names *)

JsonObject(x) ==
    <<"{", x.id, "\"">> \o x.name \o <<"\"", x.createdAt, x.updatedAt, "}">>

RECURSIVE JsonItems(_)
JsonItems(list) ==
    IF list = <<>> THEN <<>>
    ELSE IF Len(list) = 1 THEN JsonObject(list[1])
    ELSE JsonObject(Head(list)) \o <<",">> \o JsonItems(Tail(list))

\* JSON.stringify(snapshots, null, 2)
JsonStringify(list) == <<"[">> \o JsonItems(list) \o <<"]">>

\* the outcome of a parse that throws SyntaxError
Malformed == [ok |-> FALSE, value |-> <<>>, rest |-> <<>>]

\* the characters of a string up to its closing quote
RECURSIVE ParseString(_, _)
ParseString(text, acc) ==
    IF text = <<>> THEN Malformed
    ELSE IF Head(text) = "\"" THEN [ok |-> TRUE, value |-> acc, rest |-> Tail(text)]
    ELSE ParseString(Tail(text), Append(acc, Head(text)))

ParseObject(text) ==
    IF Len(text) < 3 \/ text[1] # "{" \/ text[3] # "\"" THEN Malformed
    ELSE LET name == ParseString(SubSeq(text, 4, Len(text)), <<>>) IN
         IF ~name.ok \/ Len(name.rest) < 3 \/ name.rest[3] # "}" THEN Malformed
         ELSE [ok |-> TRUE,
               value |-> [id |-> text[2], name |-> name.value,
                          createdAt |-> name.rest[1], updatedAt |-> name.rest[2]],
               rest |-> SubSeq(name.rest, 4, Len(name.rest))]

RECURSIVE ParseItems(_, _)
ParseItems(text, acc) ==
    LET object == ParseObject(text) IN
    IF ~object.ok \/ object.rest = <<>> THEN Malformed
    ELSE IF object.rest = <<"]">>
         THEN [ok |-> TRUE, value |-> Append(acc, object.value), rest |-> <<>>]
    ELSE IF Head(object.rest) = ","
         THEN ParseItems(Tail(object.rest), Append(acc, object.value))
    ELSE Malformed

\* JSON.parse(content) as Snapshot[]
JsonParse(text) ==
    IF text = <<"[", "]">> THEN [ok |-> TRUE, value |-> <<>>, rest |-> <<>>]
    ELSE IF text = <<>> \/ Head(text) # "[" THEN Malformed
    ELSE ParseItems(Tail(text), <<>>)

\* no snapshots.json in the project folder: fs:readFile returns null
NoFile == [exists |-> FALSE, content |-> <<>>]

\* a write that adds to the end of the file
AppendFile(f, content) == [exists |-> TRUE, content |-> f.content \o content]

\* fs:writeFile: writeFileSync(filePath, content) replaces the file
WriteFile(f, content) == [exists |-> TRUE, content |-> content]

\* a load that reads the file whether or not a project path is known
loadSnapshotsWithoutSession(f, available) ==
    IF ~f.exists \/ f.content = <<>> THEN <<>>
    ELSE LET parsed == JsonParse(f.content) IN
         IF parsed.ok THEN parsed.value ELSE <<>>

\* SnapshotManager.loadSnapshots: the collection in the file f, and the empty
\* collection when the project path is not available, the file is missing
\* or empty, or the parse throws
loadSnapshots(f, available) ==
    IF ~available \/ ~f.exists \/ f.content = <<>> THEN <<>>
    ELSE LET parsed == JsonParse(f.content) IN
         IF parsed.ok THEN parsed.value ELSE <<>>

\* fs:readFile: the file as the renderer gets it, null when the file is
\* missing or readFileSync throws
ReadFile(f, readable) == IF readable THEN f ELSE NoFile

\* fs:ensureDir: the directory exists afterwards if it existed or mkdirSync
\* succeeded
EnsureDir(d, mkdir) == d \/ mkdir

\* fs:writeFile with the directory present (d) or not.  writeFileSync opens
\* the file truncated, writes and closes; `written` is the number of tokens
\* on disk when it returns or throws: -1 when the file could not be opened,
\* Len(content) when the write is complete, less when it broke off.
FsWriteFile(f, d, content, written) ==
    IF ~d \/ written < 0 THEN [file |-> f, ok |-> FALSE]
    ELSE IF written >= Len(content) THEN [file |-> WriteFile(f, content), ok |-> TRUE]
    ELSE [file |-> WriteFile(f, SubSeq(content, 1, written)), ok |-> FALSE]

\* what a writeFileSync of this content may leave behind
WrittenLengths(content) == -1..Len(content)

\* a save that reports success whatever fs:writeFile returned
SaveOutcomeUnchecked(f, d, list, connected, mkdir, written) ==
    IF ~connected THEN [file |-> f, dir |-> d, ok |-> FALSE]
    ELSE LET ensured == EnsureDir(d, mkdir)
             w == FsWriteFile(f, ensured, JsonStringify(list), written) IN
         [file |-> w.file, dir |-> ensured, ok |-> TRUE]

\* SnapshotManager.saveSnapshots on the file f and the directory d: what it
\* leaves on disk and what it returns
SaveOutcome(f, d, list, connected, mkdir, written) ==
    IF ~connected THEN [file |-> f, dir |-> d, ok |-> FALSE]
    ELSE LET ensured == EnsureDir(d, mkdir)
             w == FsWriteFile(f, ensured, JsonStringify(list), written) IN
         [file |-> w.file, dir |-> ensured, ok |-> w.ok]

\* SnapshotManager.clearAllSnapshots: writes JSON.stringify([]) without
\* ensureDir and returns true without a look at what fs:writeFile returned
ClearOutcome(f, d, connected, written) ==
    IF ~connected THEN [file |-> f, dir |-> d, ok |-> FALSE]
    ELSE LET w == FsWriteFile(f, d, JsonStringify(<<>>), written) IN
         [file |-> w.file, dir |-> d, ok |-> TRUE]

\* the collections handed to SnapshotManager.saveSnapshots
StoreCollections ==
    { <<>>,
      <<NewSnapshot(1, <<"a">>, 1)>>,
      <<NewSnapshot(2, <<"A">>, 2)>>,
      <<NewSnapshot(1, <<"a">>, 1), NewSnapshot(2, <<>>, 2)>> }

\* no call of SnapshotManager has returned yet
NothingReturned == [op |-> "none", ok |-> TRUE, value |-> <<>>]

(* ------------------------------ presets ------------------------------- *)

PRESETS_PER_PAGE == 3

\* generateId(): `preset_${Date.now()}_${random}`, a fresh id at every
\* call: the j-th id made by the call that issues the n-th write
PresetId(n, j) == "preset_" \o ToString(n) \o "_" \o ToString(j)
PresetIds == { PresetId(n, 1) : n \in 1..MaxPresetOps }

\* the id of a preset made before the behaviour began, as an interchange
\* file carries it
SourceId == PresetId(0, 1)

\* presets.json, or the localStorage item, when it is not there
NoStore == [exists |-> FALSE, list |-> <<>>]

\* a store that holds n presets
Stored(n) ==
    [exists |-> TRUE,
     list |-> [i \in 1..n |-> [id |-> PresetId(i, 1),
                               name |-> IF i % 2 = 1 THEN <<"a">> ELSE <<"b">>]]]

\* PresetManager.getPresets: the file when Electron can read it (an empty
\* array is truthy), the localStorage item otherwise, [] when there is none
getPresets(pf, pl, readable) ==
    IF readable /\ pf.exists THEN pf.list
    ELSE IF pl.exists THEN pl.list
    ELSE <<>>

\* Math.ceil(a / b)
Ceil(a, b) == IF a % b = 0 THEN a \div b ELSE a \div b + 1

\* a relative index of Array.prototype.slice, within 0..n
SliceIndex(k, n) ==
    IF k < 0 THEN (IF n + k < 0 THEN 0 ELSE n + k)
    ELSE IF k > n THEN n ELSE k

\* a slice that takes the element at `end` as well
SliceInclusive(list, start, end) ==
    LET from == SliceIndex(start, Len(list))
        to == SliceIndex(end + 1, Len(list)) IN
    IF from < to THEN SubSeq(list, from + 1, to) ELSE <<>>

\* list.slice(start, end)
Slice(list, start, end) ==
    LET from == SliceIndex(start, Len(list))
        to == SliceIndex(end, Len(list)) IN
    IF from < to THEN SubSeq(list, from + 1, to) ELSE <<>>

\* PresetManager.getPaginatedPresets(page) on the presets getPresets gave
PaginatedPresets(allPresets, page) ==
    LET totalCount == Len(allPresets)
        startIndex == (page - 1) * PRESETS_PER_PAGE
        endIndex == startIndex + PRESETS_PER_PAGE IN
    [presets |-> Slice(allPresets, startIndex, endIndex),
     totalPages |-> Ceil(totalCount, PRESETS_PER_PAGE),
     currentPage |-> page,
     totalCount |-> totalCount]

\* the texts typed into the name field of the save dialog or of a row
PresetTexts == { <<"a">>, <<"A">>, <<" ", "a">>, <<" ">> }

AudioFormats == {"wav", "aiff"}
MixSourceTypes == {"PhysicalOut", "Bus", "Output"}

\* the entries of an interchange file: a preset as exportPresetsToFile wrote
\* it, one with a mix_source_type this version does not know, and null
ValidEntry ==
    [value |-> "object", id |-> SourceId, name |-> <<"b">>, file_format |-> "wav",
     mix_source_name |-> "Out 1-2", mix_source_type |-> "Bus"]
UnknownTypeEntry == [ValidEntry EXCEPT !.mix_source_type = "Aux"]
NullEntry ==
    [value |-> "null", id |-> "undefined", name |-> Undefined, file_format |-> "undefined",
     mix_source_name |-> "undefined", mix_source_type |-> "undefined"]

\* the files handed to importPresetsFromFile: a text that is no JSON, a JSON
\* object, and JSON arrays
ImportDocuments ==
    { [kind |-> "garbage", entries |-> <<>>], [kind |-> "object", entries |-> <<>>] }
    \cup
    { [kind |-> "list", entries |-> e] :
        e \in { <<>>, <<ValidEntry, UnknownTypeEntry>>, <<UnknownTypeEntry, ValidEntry>>,
                <<UnknownTypeEntry>>, <<ValidEntry, NullEntry>> } }

\* PresetManager.validatePreset: typeof null is 'object', so a null entry
\* gets as far as preset.name, which throws TypeError
validatePreset(preset) ==
    IF preset.value = "null" THEN "throws"
    ELSE IF /\ preset.value = "object"
            /\ preset.name # Undefined
            /\ preset.file_format \in AudioFormats
            /\ preset.mix_source_name # "undefined"
            /\ preset.mix_source_type \in MixSourceTypes
         THEN "valid"
         ELSE "invalid"

\* the forEach of importPresetsFromFile from entry `index` on, in the call
\* that issues the n-th write
RECURSIVE ImportScan(_, _, _, _, _)
ImportScan(entries, index, n, validPresets, errors) ==
    IF entries = <<>>
    THEN [threw |-> FALSE, validPresets |-> validPresets, errors |-> errors]
    ELSE LET preset == Head(entries)
             verdict == validatePreset(preset) IN
         IF verdict = "throws"
         THEN [threw |-> TRUE, validPresets |-> validPresets, errors |-> errors]
         ELSE IF verdict = "valid"
         THEN ImportScan(Tail(entries), index + 1, n,
                         Append(validPresets,
                                [id |-> PresetId(n, Len(validPresets) + 1),
                                 name |-> preset.name]),
                         errors)
         ELSE ImportScan(Tail(entries), index + 1, n, validPresets,
                         Append(errors, "Invalid preset at index " \o ToString(index)))

\* presets.some(p => p.name === name && p.id !== excludeId)
isNameExists(presets, name, excludeId) ==
    \E i \in 1..Len(presets) : presets[i].name = name /\ presets[i].id # excludeId

\* what a call of PresetManager, or the handler around it, resolves with:
\* ok is the boolean, the success flag or the presence of the preset
NoPreset == [id |-> "null", name |-> <<>>]
Result(op, ok, imported, errors, preset) ==
    [op |-> op, ok |-> ok, imported |-> imported, errors |-> errors, preset |-> preset]
NothingResolved == Result("none", TRUE, 0, <<>>, NoPreset)

\* useState<PaginatedPresets>({presets: [], totalPages: 0, currentPage: 1, totalCount: 0})
InitialPaginatedData ==
    [presets |-> <<>>, totalPages |-> 0, currentPage |-> 1, totalCount |-> 0]

(* ------------------------------ session ------------------------------- *)

\* the track lists the gateway may report
TrackLists == { <<>>, <<"Kick">>, <<"Kick", "Snare">> }

\* what http.request('GET', '/api/v1/session/info') may settle with: a
\* rejection (axios or the http:get handler throws), a body that is no
\* object, or the session data
SessionInfoResponses ==
    { [kind |-> "throw", body |-> "none", session_name |-> "undefined"],
      [kind |-> "ok", body |-> "null", session_name |-> "undefined"],
      [kind |-> "ok", body |-> "object", session_name |-> "undefined"],
      [kind |-> "ok", body |-> "object", session_name |-> "Song"] }

\* what http.request('GET', '/api/v1/tracks') may settle with: a rejection,
\* a body that is no object, an object without tracks, or the track list
TracksResponses ==
    { [kind |-> "throw", body |-> "none", hasTracks |-> FALSE, tracks |-> <<>>],
      [kind |-> "ok", body |-> "null", hasTracks |-> FALSE, tracks |-> <<>>],
      [kind |-> "ok", body |-> "object", hasTracks |-> FALSE, tracks |-> <<>>] }
    \cup
    { [kind |-> "ok", body |-> "object", hasTracks |-> TRUE, tracks |-> t] : t \in TrackLists }

\* what a call of SessionApi settles with: a value, or a rejection
Returns(connected, name, list) ==
    [raised |-> FALSE, isConnected |-> connected, sessionName |-> name, tracks |-> list]
Raises == [raised |-> TRUE, isConnected |-> FALSE, sessionName |-> "undefined", tracks |-> <<>>]

\* a checkStatus whose try has no catch
checkStatusWithoutCatch(resp) ==
    IF resp.kind = "throw" \/ resp.body = "null"
    THEN Raises
    ELSE Returns(TRUE, resp.session_name, <<>>)

\* SessionApi.checkStatus: reading session_name of a body that is no object
\* throws TypeError inside the try
checkStatus(resp) ==
    IF resp.kind = "throw" \/ resp.body = "null"
    THEN Returns(FALSE, "undefined", <<>>)
    ELSE Returns(TRUE, resp.session_name, <<>>)

\* SessionApi.getTracks: data.tracks || []
getTracks(resp) ==
    IF resp.kind = "throw" \/ resp.body = "null"
    THEN Returns(FALSE, "undefined", <<>>)
    ELSE Returns(FALSE, "undefined", IF resp.hasTracks THEN resp.tracks ELSE <<>>)

(* ------------------------------ state --------------------------------- *)

VARIABLES
    isExporting,     \* useState(false)
    exportProgress,  \* useState<ExportProgress | null>(null)
    error,           \* useState<string | null>(null)
    success,         \* useState(false)
    pollTimeoutId,   \* useState<NodeJS.Timeout | null>(null)
    startReqs,       \* apiService.startExport calls awaiting their response
    statusReqs,      \* apiService.getExportStatus calls awaiting their response
    stopReqs,        \* apiService.stopExportTask calls awaiting their response
    timers,          \* pending setTimeout(poll, 1000) timers
    nStarts,         \* export/start requests issued so far
    nRunning,        \* status responses with pending or running so far
    runClosed,       \* the latest run has ended, was cancelled or was reset
    snapshots,       \* useSnapshots: useState<Snapshot[]>([])
    isLoading,       \* useSnapshots: useState(true), the initial load is under way
    thrown,          \* the Error the last call of the hook threw, if any
    nCreated,        \* snapshots added by createSnapshot so far
    saves,           \* collections handed to saveSnapshots, not yet written
    nSaves,          \* saveSnapshots calls the hook has issued so far
    file,            \* snapshots.json in the project folder
    dir,             \* the snapshots directory of the project folder exists
    returned,        \* what the last call of SnapshotManager returned
    presetFile,      \* Documents/Tracktodo/presets.json
    presetLocal,     \* localStorage['track2do_export_presets']
    paginatedData,   \* PresetManagerComponent: useState<PaginatedPresets>
    presetOps,       \* savePresets calls awaiting their completion
    nPresetOps,      \* savePresets calls issued so far
    resolved,        \* what the last call of PresetManager resolved with
    isConnected,     \* useProToolsConnection: useState(false)
    sessionName,     \* useProToolsConnection: useState<string | undefined>()
    tracks,          \* useProToolsConnection: useState<Track[]>([])
    loading,         \* useProToolsConnection: useState(false)
    connectionError, \* useProToolsConnection: its error, useState<string | null>(null)
    statusCalls,     \* apiService.checkStatus calls awaiting their response
    trackCalls,      \* apiService.getTracks calls awaiting their response
    nChecks          \* checkStatus calls issued so far

\* A start request [n, ctid] is the n-th export/start call, made by a
\* startExport that read pollTimeoutId = ctid.
\* A status request [task, ctid, stopped] is an export/status call of the
\* poll loop of `task`, whose closure read pollTimeoutId = ctid; `stopped`
\* records that stopPolling has been invoked for the task since the loop began.
\* A timer [id, task, ctid, stopped] is the loop waiting for its next poll.

react == <<isExporting, exportProgress, error, success, pollTimeoutId>>
pending == <<startReqs, statusReqs, stopReqs, timers>>
counters == <<nStarts, nRunning>>
exportVars == <<react, pending, counters, runClosed>>
snapshotVars == <<snapshots, isLoading, thrown, nCreated, saves, nSaves, file>>
storeVars == <<dir, returned>>
\* A preset write [write, result] is a savePresets(write) under way; the
\* call that issued it resolves with `result` when the write is over.

presetVars == <<presetFile, presetLocal, paginatedData, presetOps, nPresetOps, resolved>>
connectionVars ==
    <<isConnected, sessionName, tracks, loading, connectionError, statusCalls, trackCalls,
      nChecks>>
vars == <<exportVars, snapshotVars, storeVars, presetVars, connectionVars>>

Init ==
    /\ isExporting = FALSE
    /\ exportProgress = NullProgress
    /\ error = NoError
    /\ success = FALSE
    /\ pollTimeoutId = NoTimer
    /\ startReqs = {}
    /\ statusReqs = {}
    /\ stopReqs = 0
    /\ timers = {}
    /\ nStarts = 0
    /\ nRunning = 0
    /\ runClosed = TRUE
    /\ snapshots = <<>>
    /\ isLoading = TRUE
    /\ thrown = NoThrow
    /\ nCreated = 0
    /\ saves = {}
    /\ nSaves = 0
    /\ file = NoFile
    /\ dir = FALSE
    /\ returned = NothingReturned
    /\ presetFile = NoStore
    /\ presetLocal = NoStore
    /\ paginatedData = InitialPaginatedData
    /\ presetOps = {}
    /\ nPresetOps = 0
    /\ resolved = NothingResolved
    /\ isConnected = FALSE
    /\ sessionName = "undefined"
    /\ tracks = <<>>
    /\ loading = FALSE
    /\ connectionError = NoError
    /\ statusCalls = 1
    /\ trackCalls = 0
    /\ nChecks = 1

\* the hook mounted in a session whose project folder holds the snapshot
\* of an earlier run
ReopenInit ==
    /\ isExporting = FALSE
    /\ exportProgress = NullProgress
    /\ error = NoError
    /\ success = FALSE
    /\ pollTimeoutId = NoTimer
    /\ startReqs = {}
    /\ statusReqs = {}
    /\ stopReqs = 0
    /\ timers = {}
    /\ nStarts = 0
    /\ nRunning = 0
    /\ runClosed = TRUE
    /\ snapshots = <<>>
    /\ isLoading = TRUE
    /\ thrown = NoThrow
    /\ nCreated = 0
    /\ saves = {}
    /\ nSaves = 0
    /\ file = WriteFile(NoFile, JsonStringify(<<PersistedSnapshot>>))
    /\ dir = FALSE
    /\ returned = NothingReturned
    /\ presetFile = NoStore
    /\ presetLocal = NoStore
    /\ paginatedData = InitialPaginatedData
    /\ presetOps = {}
    /\ nPresetOps = 0
    /\ resolved = NothingResolved
    /\ isConnected = FALSE
    /\ sessionName = "undefined"
    /\ tracks = <<>>
    /\ loading = FALSE
    /\ connectionError = NoError
    /\ statusCalls = 1
    /\ trackCalls = 0
    /\ nChecks = 1

\* the component mounted over a store of any size up to MaxStored, kept in
\* the file or, without a file, in localStorage
PageInit ==
    /\ isExporting = FALSE
    /\ exportProgress = NullProgress
    /\ error = NoError
    /\ success = FALSE
    /\ pollTimeoutId = NoTimer
    /\ startReqs = {}
    /\ statusReqs = {}
    /\ stopReqs = 0
    /\ timers = {}
    /\ nStarts = 0
    /\ nRunning = 0
    /\ runClosed = TRUE
    /\ snapshots = <<>>
    /\ isLoading = TRUE
    /\ thrown = NoThrow
    /\ nCreated = 0
    /\ saves = {}
    /\ nSaves = 0
    /\ file = NoFile
    /\ dir = FALSE
    /\ returned = NothingReturned
    /\ \E n \in 0..MaxStored :
          \/ presetFile = Stored(n) /\ presetLocal \in {NoStore, Stored(n)}
          \/ presetFile = NoStore /\ presetLocal = Stored(n)
    /\ paginatedData = InitialPaginatedData
    /\ presetOps = {}
    /\ nPresetOps = 0
    /\ resolved = NothingResolved
    /\ isConnected = FALSE
    /\ sessionName = "undefined"
    /\ tracks = <<>>
    /\ loading = FALSE
    /\ connectionError = NoError
    /\ statusCalls = 1
    /\ trackCalls = 0
    /\ nChecks = 1

(* ----------------------------- helpers -------------------------------- *)

\* clearTimeout(id): a pending timer with that id never fires; an id that
\* has fired or was cleared is ignored
ClearTimeout(id) == { tm \in timers : tm.id # id }

\* if (pollTimeoutId) { clearTimeout(pollTimeoutId); setPollTimeoutId(null) }
\* with the pollTimeoutId the running handler reads
ClearPollTimer(id) ==
    IF id # NoTimer
    THEN /\ timers' = ClearTimeout(id)
         /\ pollTimeoutId' = NoTimer
    ELSE UNCHANGED <<timers, pollTimeoutId>>

\* exportProgress?.task_id is truthy
HasTask(p) == p # NullProgress /\ p.task_id # NoTask

\* the task the held progress object belongs to, NoTask when there is none
ActiveTask == IF HasTask(exportProgress) THEN exportProgress.task_id ELSE NoTask

\* the poll loops of task t that wait for a response or for their timer
Outstanding(t) ==
    Cardinality({r \in statusReqs : r.task = t}) + Cardinality({tm \in timers : tm.task = t})

(* ---------------------------- startExport ----------------------------- *)

\* startExport without its last precondition check
ValidationErrorNoMixSource(selected, output_path, mix_source_name) ==
    IF selected = 0 THEN "Please select snapshots to export"
    ELSE IF Trim(output_path) = <<>> THEN "Output Path is required"
    ELSE NoError

\* the three precondition checks of startExport, in order; NoError = passed
ValidationError(selected, output_path, mix_source_name) ==
    IF selected = 0 THEN "Please select snapshots to export"
    ELSE IF Trim(output_path) = <<>> THEN "Output Path is required"
    ELSE IF Trim(mix_source_name) = <<>> THEN "Output Mix Source Name is required"
    ELSE NoError

\* the outcome of the three checks for each form the operator may submit
ValidationErrors ==
    [f \in Forms |-> ValidationError(f.selected, f.output_path, f.mix_source_name)]

\* the state part of the Start Export button: rendered while !success, and
\* disabled while isExporting
StartButtonEnabled == ~success /\ ~isExporting

\* startExport up to its first await.  The selection and the two settings
\* fields are the inputs of the call.
startExport(selected, output_path, mix_source_name) ==
    /\ StartButtonEnabled
    /\ LET e == ValidationErrors[Form(selected, output_path, mix_source_name)] IN
       IF e # NoError
       THEN /\ error' = e
            /\ UNCHANGED <<isExporting, exportProgress, success, pollTimeoutId>>
            /\ UNCHANGED <<pending, counters, runClosed>>
       ELSE /\ nStarts < MaxStarts
            /\ isExporting' = TRUE
            /\ error' = NoError
            /\ success' = FALSE
            /\ exportProgress' = InitialProgress
            /\ nStarts' = nStarts + 1
            /\ startReqs' = startReqs \cup {[n |-> nStarts + 1, ctid |-> pollTimeoutId]}
            /\ runClosed' = FALSE
            /\ UNCHANGED <<pollTimeoutId, statusReqs, stopReqs, timers, nRunning>>

\* what the gateway may answer to the n-th export/start: a transport
\* failure, or a body {success, task_id?, message}; it names the n-th task n
StartResponses(n) ==
    [kind : {"ok"}, success : BOOLEAN, task_id : {NoTask, n},
     message : {"undefined", "", "output path not writable"}]
    \cup
    [kind : {"throw"}, success : {FALSE}, task_id : {NoTask}, message : {"undefined"}]

\* response.success alone
StartAcceptedWithoutTaskId(resp) == resp.kind = "ok" /\ resp.success

\* response.success && response.task_id
StartAccepted(resp) == resp.kind = "ok" /\ resp.success /\ resp.task_id # NoTask

\* the message of the Error the catch block of startExport receives:
\* ExportApi.startExport rethrows a transport failure with a fixed message
StartFailureMessage(resp) ==
    IF resp.kind = "throw" THEN "Failed to start export task"
    ELSE IF Truthy(resp.message) THEN resp.message
    ELSE "Failed to start export task"

\* startExport from the response of apiService.startExport on; on success it
\* calls pollExportStatus, whose first poll() issues the first status request
startExportResponse(req, resp) ==
    /\ req \in startReqs
    /\ startReqs' = startReqs \ {req}
    /\ IF StartAccepted(resp)
       THEN /\ exportProgress' =
                  IF exportProgress # NullProgress
                  THEN [exportProgress EXCEPT !.task_id = resp.task_id]
                  ELSE NullProgress
            /\ statusReqs' = statusReqs \cup
                  {[task |-> resp.task_id, ctid |-> req.ctid, stopped |-> FALSE]}
            /\ UNCHANGED <<isExporting, error, success, pollTimeoutId, timers, runClosed>>
       ELSE /\ error' = StartFailureMessage(resp)
            /\ isExporting' = FALSE
            /\ exportProgress' = NullProgress
            /\ ClearPollTimer(req.ctid)
            /\ runClosed' = (runClosed \/ req.n = nStarts)
            /\ UNCHANGED <<success, statusReqs>>
    /\ UNCHANGED <<stopReqs, counters>>

(* -------------------------- pollExportStatus -------------------------- *)

\* what the gateway may answer to export/status/{task}: a transport failure,
\* a body without success or data, or {success: true, data: ExportTask}
StatusResponses(t) ==
    [kind : {"ok"}, data : ExportTasks(t)]
    \cup
    [kind : {"throw", "invalid"}, data : {NullProgress}]

\* a poll loop that goes on after completed
ContinuesPollingAfterCompleted(status) == status \in {"running", "pending", "completed"}

\* status === 'running' || status === 'pending'
ContinuesPolling(status) == status \in {"running", "pending"}

\* the generic message whatever the result says
ExportErrorMessageGeneric(result) == "Error occurred during export"

\* response.data.result?.error_message || 'Error occurred during export'
ExportErrorMessage(result) ==
    IF result.present /\ Truthy(result.error_message)
    THEN result.error_message
    ELSE "Error occurred during export"

\* the error a status response leaves, given the error held before
ErrorAfter(data, before) ==
    IF data.status \in {"failed", "completed_with_errors"} THEN ExportErrorMessage(data.result)
    ELSE IF data.status = "cancelled" THEN "Export was cancelled"
    ELSE IF data.status \in {"completed", "running", "pending"} THEN before
    ELSE "Unknown export status: " \o data.status

\* a fixed-rate timer: it stays armed when it fires
pollAtFixedRate(tm) ==
    /\ tm \in timers
    /\ timers' = timers
    /\ statusReqs' = statusReqs \cup
          {[task |-> tm.task, ctid |-> tm.ctid, stopped |-> tm.stopped]}
    /\ UNCHANGED <<react, startReqs, stopReqs, counters, runClosed>>

\* the timer fires: poll() runs again and issues the next status request
poll(tm) ==
    /\ tm \in timers
    /\ timers' = timers \ {tm}
    /\ statusReqs' = statusReqs \cup
          {[task |-> tm.task, ctid |-> tm.ctid, stopped |-> tm.stopped]}
    /\ UNCHANGED <<react, startReqs, stopReqs, counters, runClosed>>

\* a catch block that tries the request again after the poll interval
pollCatchRetrying(r) ==
    /\ error' = "Failed to get export status"
    /\ isExporting' = FALSE
    /\ timers' = ClearTimeout(r.ctid) \cup
           {[id |-> nRunning + 1, task |-> r.task, ctid |-> r.ctid, stopped |-> r.stopped]}
    /\ pollTimeoutId' = pollTimeoutId
    /\ UNCHANGED <<exportProgress, success>>

\* the catch block of poll(): the request of loop r failed in transport
pollCatch(r) ==
    /\ error' = "Failed to get export status"
    /\ isExporting' = FALSE
    /\ ClearPollTimer(r.ctid)
    /\ UNCHANGED <<exportProgress, success>>

\* poll() from the response of apiService.getExportStatus on
pollResponse(r, resp) ==
    /\ r \in statusReqs
    /\ statusReqs' = statusReqs \ {r}
    /\ CASE resp.kind = "throw" ->
              pollCatch(r)
         [] resp.kind = "invalid" ->
              UNCHANGED <<react, timers>>
         [] resp.kind = "ok" ->
              /\ exportProgress' = resp.data
              /\ error' = ErrorAfter(resp.data, error)
              /\ success' = (success \/ resp.data.status = "completed")
              /\ IF ContinuesPolling(resp.data.status)
                 THEN /\ nRunning < MaxRunning
                      /\ timers' = timers \cup
                             {[id |-> nRunning + 1, task |-> r.task, ctid |-> r.ctid,
                               stopped |-> r.stopped]}
                      /\ pollTimeoutId' = nRunning + 1
                      /\ UNCHANGED isExporting
                 ELSE /\ isExporting' = FALSE
                      /\ IF resp.data.status \in TerminalStatuses
                         THEN ClearPollTimer(r.ctid)
                         ELSE UNCHANGED <<timers, pollTimeoutId>>
    /\ runClosed' =
          (runClosed \/ (r.task = nStarts /\ ~(resp.kind = "ok" /\ ContinuesPolling(resp.data.status))))
    /\ nRunning' = IF resp.kind = "ok" /\ ContinuesPolling(resp.data.status)
                   THEN nRunning + 1 ELSE nRunning
    /\ UNCHANGED <<startReqs, stopReqs, nStarts>>

(* ----------------------------- stopPolling ---------------------------- *)

\* the Stop Export button is rendered while !success && isExporting
StopButtonShown == ~success /\ isExporting

\* the poll loops of task t, marked as stopped
MarkStopped(loops, t) ==
    { IF x.task = t THEN [x EXCEPT !.stopped = TRUE] ELSE x : x \in loops }

\* stopPolling up to its await; without a task id there is no await and the
\* handler runs to its end
stopPolling ==
    /\ StopButtonShown
    /\ pollTimeoutId' = NoTimer
    /\ runClosed' = TRUE
    /\ IF HasTask(exportProgress)
       THEN /\ stopReqs < MaxStops
            /\ stopReqs' = stopReqs + 1
            /\ timers' = MarkStopped(ClearTimeout(pollTimeoutId), exportProgress.task_id)
            /\ statusReqs' = MarkStopped(statusReqs, exportProgress.task_id)
            /\ UNCHANGED <<isExporting, error>>
       ELSE /\ isExporting' = FALSE
            /\ error' = "Export manually stopped"
            /\ timers' = ClearTimeout(pollTimeoutId)
            /\ UNCHANGED <<stopReqs, statusReqs>>
    /\ UNCHANGED <<exportProgress, success, startReqs, counters>>

\* stopPolling from the settlement of apiService.stopExportTask on; a
\* rejection is caught and logged, so both outcomes continue alike
stopPollingResponse(ok) ==
    /\ stopReqs > 0
    /\ stopReqs' = stopReqs - 1
    /\ isExporting' = FALSE
    /\ error' = "Export manually stopped"
    /\ UNCHANGED <<exportProgress, success, pollTimeoutId>>
    /\ UNCHANGED <<startReqs, statusReqs, timers, counters, runClosed>>

(* ----------------------------- resetState ----------------------------- *)

\* the Continue Export button sits in the success panel, rendered while
\* success && exportProgress?.result
ResetButtonShown ==
    success /\ exportProgress # NullProgress /\ exportProgress.result.present

resetState ==
    /\ ResetButtonShown
    /\ isExporting' = FALSE
    /\ exportProgress' = NullProgress
    /\ error' = NoError
    /\ success' = FALSE
    /\ ClearPollTimer(pollTimeoutId)
    /\ runClosed' = TRUE
    /\ UNCHANGED <<startReqs, statusReqs, stopReqs, counters>>

(* ---------------------------- ExportDialog ---------------------------- *)

\* ExportDialog.startExport up to its await; the button is disabled while
\* isExporting
ExportDialogStartExport(selected, output_path, mix_source_name) ==
    /\ ~isExporting
    /\ LET e == ValidationErrors[Form(selected, output_path, mix_source_name)] IN
       IF e # NoError
       THEN /\ error' = e
            /\ UNCHANGED <<isExporting, nStarts, startReqs>>
       ELSE /\ nStarts < MaxStarts
            /\ isExporting' = TRUE
            /\ error' = NoError
            /\ nStarts' = nStarts + 1
            /\ startReqs' = startReqs \cup {[n |-> nStarts + 1, ctid |-> NoTimer]}
    /\ UNCHANGED <<exportProgress, success, pollTimeoutId, statusReqs, stopReqs, timers,
                   nRunning, runClosed>>

\* ExportDialog.startExport from the response of apiService.startExport on
ExportDialogStartExportResponse(req, resp) ==
    /\ req \in startReqs
    /\ startReqs' = startReqs \ {req}
    /\ IF StartAccepted(resp)
       THEN /\ statusReqs' = statusReqs \cup
                  {[task |-> resp.task_id, ctid |-> NoTimer, stopped |-> FALSE]}
            /\ UNCHANGED <<isExporting, error>>
       ELSE /\ error' = StartFailureMessage(resp)
            /\ isExporting' = FALSE
            /\ UNCHANGED statusReqs
    /\ UNCHANGED <<exportProgress, success, pollTimeoutId, stopReqs, timers, counters,
                   runClosed>>

\* the poll() of ExportDialog from the response of getExportStatus on: it
\* has no branch for a status outside the six it names
ExportDialogPollResponse(r, resp) ==
    /\ r \in statusReqs
    /\ statusReqs' = statusReqs \ {r}
    /\ CASE resp.kind = "throw" ->
              /\ error' = "Failed to get export status"
              /\ isExporting' = FALSE
              /\ UNCHANGED <<exportProgress, success, timers, nRunning>>
         [] resp.kind = "invalid" ->
              UNCHANGED <<isExporting, exportProgress, error, success, timers, nRunning>>
         [] resp.kind = "ok" ->
              /\ exportProgress' = resp.data
              /\ success' = (success \/ resp.data.status = "completed")
              /\ error' =
                    IF resp.data.status \in {"failed", "completed_with_errors"}
                    THEN ExportErrorMessage(resp.data.result)
                    ELSE IF resp.data.status = "cancelled" THEN "Export was cancelled"
                    ELSE error
              /\ isExporting' =
                    IF resp.data.status \in TerminalStatuses THEN FALSE ELSE isExporting
              /\ IF ContinuesPolling(resp.data.status)
                 THEN /\ nRunning < MaxRunning
                      /\ nRunning' = nRunning + 1
                      /\ timers' = timers \cup
                             {[id |-> nRunning + 1, task |-> r.task, ctid |-> NoTimer,
                               stopped |-> FALSE]}
                 ELSE UNCHANGED <<timers, nRunning>>
    /\ UNCHANGED <<pollTimeoutId, startReqs, stopReqs, nStarts, runClosed>>

\* ExportDialog.stopExport up to its await; the button is rendered while
\* isExporting, and nothing clears the timer of the poll loop
stopExport ==
    /\ isExporting
    /\ IF HasTask(exportProgress)
       THEN /\ stopReqs < MaxStops
            /\ stopReqs' = stopReqs + 1
            /\ UNCHANGED <<isExporting, error>>
       ELSE /\ isExporting' = FALSE
            /\ error' = "Export manually stopped"
            /\ UNCHANGED stopReqs
    /\ UNCHANGED <<exportProgress, success, pollTimeoutId, startReqs, statusReqs, timers,
                   counters, runClosed>>

\* the timer of ExportDialog's setTimeout(poll, 1000) fires
ExportDialogPoll(tm) == poll(tm)

\* ExportDialog.stopExport from the settlement of stopExportTask on
stopExportResponse(ok) == stopPollingResponse(ok)

(* ---------------------------- useSnapshots ---------------------------- *)

\* the effect of the first render, from the resolution of
\* SnapshotManager.loadSnapshots on
loadInitialSnapshots(available) ==
    /\ isLoading
    /\ isLoading' = FALSE
    /\ snapshots' = loadSnapshots(file, available)
    /\ UNCHANGED <<thrown, nCreated, saves, nSaves, file>>

\* saveSnapshotsToStorage(list): the call is not awaited, the write lands later
SaveIssued(list) ==
    /\ nSaves < MaxSaves
    /\ nSaves' = nSaves + 1
    /\ saves' = saves \cup {list}

createSnapshot(name) ==
    IF NameTaken(snapshots, name)
    THEN /\ thrown' = DuplicateName
         /\ UNCHANGED <<snapshots, isLoading, nCreated, saves, nSaves, file>>
    ELSE /\ nCreated < MaxSnapshots
         /\ LET updatedSnapshots ==
                    Append(snapshots, NewSnapshot(nCreated + 1, name, nSaves + 1)) IN
              /\ snapshots' = updatedSnapshots
              /\ SaveIssued(updatedSnapshots)
         /\ nCreated' = nCreated + 1
         /\ thrown' = NoThrow
         /\ UNCHANGED <<isLoading, file>>

\* updateSnapshot(id, updates), where name is updates.name
updateSnapshot(id, name) ==
    IF name # Undefined /\ name # <<>> /\ NameTakenByOther(snapshots, id, name)
    THEN /\ thrown' = DuplicateName
         /\ UNCHANGED <<snapshots, isLoading, nCreated, saves, nSaves, file>>
    ELSE /\ LET updatedSnapshots == Merged(snapshots, id, name, Timestamp(nSaves + 1)) IN
              /\ snapshots' = updatedSnapshots
              /\ SaveIssued(updatedSnapshots)
         /\ thrown' = NoThrow
         /\ UNCHANGED <<isLoading, nCreated, file>>

deleteSnapshot(id) ==
    /\ LET updatedSnapshots == Without(snapshots, id) IN
         /\ snapshots' = updatedSnapshots
         /\ SaveIssued(updatedSnapshots)
    /\ thrown' = NoThrow
    /\ UNCHANGED <<isLoading, nCreated, file>>

\* SnapshotManager.saveSnapshots from the resolution of getSnapshotFilePath
\* on: with a project path and a write that succeeds the file is replaced,
\* otherwise the failure is logged and nothing is written
saveSnapshots(list, written) ==
    /\ list \in saves
    /\ saves' = saves \ {list}
    /\ UNCHANGED nSaves
    /\ file' = IF written THEN WriteFile(file, JsonStringify(list)) ELSE file
    /\ UNCHANGED <<snapshots, isLoading, thrown, nCreated>>

(* --------------------------- SnapshotManager -------------------------- *)

\* SnapshotManager.loadSnapshots(), with or without a project path and with
\* a file that can be read or not
SnapshotManagerLoadSnapshots(connected, readable) ==
    /\ returned' = [op |-> "loadSnapshots", ok |-> TRUE,
                    value |-> loadSnapshots(ReadFile(file, readable), connected)]
    /\ UNCHANGED <<file, dir>>

\* SnapshotManager.saveSnapshots(list)
SnapshotManagerSaveSnapshots(list, connected, mkdir, written) ==
    LET out == SaveOutcome(file, dir, list, connected, mkdir, written) IN
    /\ file' = out.file
    /\ dir' = out.dir
    /\ returned' = [op |-> "saveSnapshots", ok |-> out.ok, value |-> <<>>]

\* SnapshotManager.clearAllSnapshots()
clearAllSnapshots(connected, written) ==
    LET out == ClearOutcome(file, dir, connected, written) IN
    /\ file' = out.file
    /\ dir' = out.dir
    /\ returned' = [op |-> "clearAllSnapshots", ok |-> out.ok, value |-> <<>>]

(* --------------------------- PresetManager ---------------------------- *)

\* loadPresets(page): setPaginatedData(await PresetManager.getPaginatedPresets(page))
loadPresets(page, readable) ==
    /\ paginatedData' =
          PaginatedPresets(getPresets(presetFile, presetLocal, readable), page)
    /\ UNCHANGED <<presetFile, presetLocal, presetOps, nPresetOps, resolved>>

\* a call resolves at once, with nothing written
Resolve(result) ==
    /\ resolved' = result
    /\ UNCHANGED <<presetFile, presetLocal, paginatedData, presetOps, nPresetOps>>

\* await this.savePresets(presets) is issued; the caller resolves with
\* `result` when it completes
SavePresetsIssued(presets, result) ==
    /\ nPresetOps < MaxPresetOps
    /\ nPresetOps' = nPresetOps + 1
    /\ presetOps' = presetOps \cup {[write |-> presets, result |-> result]}
    /\ UNCHANGED <<presetFile, presetLocal, paginatedData, resolved>>

\* PresetManager.savePreset up to its await of savePresets
savePreset(name, readable) ==
    LET presets == getPresets(presetFile, presetLocal, readable)
        newPreset == [id |-> PresetId(nPresetOps + 1, 1), name |-> name] IN
    SavePresetsIssued(Append(presets, newPreset),
                         Result("savePreset", TRUE, 0, <<>>, newPreset))

\* PresetManager.updatePreset(id, {name}) up to its await of savePresets
updatePreset(id, name, readable) ==
    LET presets == getPresets(presetFile, presetLocal, readable) IN
    IF \A i \in 1..Len(presets) : presets[i].id # id
    THEN Resolve(Result("updatePreset", FALSE, 0, <<>>, NoPreset))
    ELSE LET index == CHOOSE i \in 1..Len(presets) :
                         /\ presets[i].id = id
                         /\ \A j \in 1..(i - 1) : presets[j].id # id
             updated == [presets[index] EXCEPT !.name = name] IN
         SavePresetsIssued([presets EXCEPT ![index] = updated],
                           Result("updatePreset", TRUE, 0, <<>>, updated))

\* a delete that writes the filtered list whether or not it is shorter
deletePresetAlwaysSaving(id, readable) ==
    LET presets == getPresets(presetFile, presetLocal, readable)
        filteredPresets == SelectSeq(presets, LAMBDA p : p.id # id) IN
    SavePresetsIssued(filteredPresets, Result("deletePreset", TRUE, 0, <<>>, NoPreset))

\* PresetManager.deletePreset(id) up to its await of savePresets
deletePreset(id, readable) ==
    LET presets == getPresets(presetFile, presetLocal, readable)
        filteredPresets == SelectSeq(presets, LAMBDA p : p.id # id) IN
    IF Len(filteredPresets) = Len(presets)
    THEN Resolve(Result("deletePreset", FALSE, 0, <<>>, NoPreset))
    ELSE SavePresetsIssued(filteredPresets, Result("deletePreset", TRUE, 0, <<>>, NoPreset))

\* PresetManager.importPresetsFromFile from reader.onload up to its await of
\* savePresets
importPresetsFromFile(doc, readable) ==
    IF doc.kind = "garbage"
    THEN Resolve(Result("importPresetsFromFile", FALSE, 0, <<"Failed to parse JSON">>, NoPreset))
    ELSE IF doc.kind # "list"
    THEN Resolve(Result("importPresetsFromFile", FALSE, 0,
                        <<"Invalid file format: expected array of presets">>, NoPreset))
    ELSE LET scan == ImportScan(doc.entries, 0, nPresetOps + 1, <<>>, <<>>) IN
         IF scan.threw
         THEN Resolve(Result("importPresetsFromFile", FALSE, 0,
                             <<"Failed to parse JSON">>, NoPreset))
         ELSE IF scan.validPresets = <<>>
         THEN Resolve(Result("importPresetsFromFile", FALSE, 0, scan.errors, NoPreset))
         ELSE SavePresetsIssued(
                 getPresets(presetFile, presetLocal, readable) \o scan.validPresets,
                 Result("importPresetsFromFile", TRUE, Len(scan.validPresets),
                        scan.errors, NoPreset))

\* a handler shows an error and calls nothing
Reject(handler, message) == Resolve(Result(handler, FALSE, 0, <<message>>, NoPreset))

\* handleSavePreset with newPresetName typed, up to the await of the write
handleSavePreset(newPresetName, readable) ==
    LET name == Trim(newPresetName) IN
    IF name = <<>> THEN Reject("handleSavePreset", "Please enter a preset name")
    ELSE IF isNameExists(getPresets(presetFile, presetLocal, readable), name, "undefined")
    THEN Reject("handleSavePreset", "A preset with this name already exists")
    ELSE savePreset(name, readable)

\* saveEditingPreset(id) with editingName typed, up to the await of the write
saveEditingPreset(id, editingName, readable) ==
    LET name == Trim(editingName) IN
    IF name = <<>> THEN Reject("saveEditingPreset", "Preset name cannot be empty")
    ELSE IF isNameExists(getPresets(presetFile, presetLocal, readable), name, id)
    THEN Reject("saveEditingPreset", "A preset with this name already exists")
    ELSE updatePreset(id, name, readable)

\* PresetManager.savePresets(op.write) completes: the file and its
\* localStorage copy when savePresetsToFile succeeded, localStorage alone
\* otherwise; the caller resolves and its handler reloads the page shown
savePresets(op, writable, readable) ==
    /\ op \in presetOps
    /\ presetOps' = presetOps \ {op}
    /\ presetFile' = IF writable THEN [exists |-> TRUE, list |-> op.write] ELSE presetFile
    /\ presetLocal' = [exists |-> TRUE, list |-> op.write]
    /\ resolved' = op.result
    /\ LET page == IF op.result.op = "importPresetsFromFile"
                   THEN 1 ELSE paginatedData.currentPage
           shown == PaginatedPresets(getPresets(presetFile', presetLocal', readable), page) IN
       paginatedData' =
          IF op.result.op = "deletePreset" /\ shown.presets = <<>> /\ page > 1
          THEN PaginatedPresets(getPresets(presetFile', presetLocal', readable), page - 1)
          ELSE shown
    /\ UNCHANGED nPresetOps

(* ----------------------- useProToolsConnection ------------------------ *)

\* checkConnection up to its await: the effect of the first render has
\* called it once, setInterval(checkConnection, 5000) calls it again
checkConnection ==
    /\ nChecks < MaxChecks
    /\ nChecks' = nChecks + 1
    /\ statusCalls' = statusCalls + 1
    /\ UNCHANGED <<isConnected, sessionName, tracks, loading, connectionError, trackCalls>>

\* refreshTracks of a render with isConnected true, up to its await
RefreshIssued ==
    /\ trackCalls < MaxTrackCalls
    /\ trackCalls' = trackCalls + 1
    /\ loading' = TRUE
    /\ connectionError' = NoError
    /\ UNCHANGED tracks

\* checkConnection from the settlement of apiService.checkStatus on, with
\* the effect on [isConnected, refreshTracks] that the next render runs
\* when isConnected has changed
checkConnectionResponse(resp) ==
    /\ statusCalls > 0
    /\ statusCalls' = statusCalls - 1
    /\ LET status == checkStatus(resp) IN
       /\ isConnected' = status.isConnected
       /\ sessionName' = status.sessionName
       /\ IF status.raised
          THEN /\ connectionError' = "Unable to connect to Pro Tools"
               /\ IF isConnected THEN tracks' = <<>> ELSE UNCHANGED tracks
               /\ UNCHANGED <<loading, trackCalls>>
          ELSE IF status.isConnected = isConnected
          THEN /\ connectionError' = NoError
               /\ UNCHANGED <<tracks, loading, trackCalls>>
          ELSE IF status.isConnected
          THEN RefreshIssued
          ELSE /\ tracks' = <<>>
               /\ connectionError' = NoError
               /\ UNCHANGED <<loading, trackCalls>>
    /\ UNCHANGED nChecks

\* refreshTracks, called by setInterval(refreshTracks, 3000) while
\* isConnected, or by a component at any time
refreshTracks ==
    /\ IF ~isConnected
       THEN /\ tracks' = <<>>
            /\ UNCHANGED <<loading, connectionError, trackCalls>>
       ELSE RefreshIssued
    /\ UNCHANGED <<isConnected, sessionName, statusCalls, nChecks>>

\* refreshTracks from the settlement of apiService.getTracks on
refreshTracksResponse(resp) ==
    /\ trackCalls > 0
    /\ trackCalls' = trackCalls - 1
    /\ LET trackList == getTracks(resp) IN
       IF trackList.raised
       THEN /\ connectionError' = "Failed to get track list"
            /\ tracks' = <<>>
       ELSE /\ tracks' = trackList.tracks
            /\ UNCHANGED connectionError
    /\ loading' = FALSE
    /\ UNCHANGED <<isConnected, sessionName, statusCalls, nChecks>>

(* --------------------------- specification ---------------------------- *)

\* the export orchestrator, with the snapshot collection at rest
Next ==
    \/ /\ \E f \in Forms : startExport(f.selected, f.output_path, f.mix_source_name)
       /\ UNCHANGED <<snapshotVars, storeVars, presetVars, connectionVars>>
    \/ /\ \E req \in startReqs : \E resp \in StartResponses(req.n) :
             startExportResponse(req, resp)
       /\ UNCHANGED <<snapshotVars, storeVars, presetVars, connectionVars>>
    \/ /\ \E tm \in timers : poll(tm)
       /\ UNCHANGED <<snapshotVars, storeVars, presetVars, connectionVars>>
    \/ /\ \E r \in statusReqs : \E resp \in StatusResponses(r.task) :
             pollResponse(r, resp)
       /\ UNCHANGED <<snapshotVars, storeVars, presetVars, connectionVars>>
    \/ stopPolling /\ UNCHANGED <<snapshotVars, storeVars, presetVars, connectionVars>>
    \/ /\ \E ok \in BOOLEAN : stopPollingResponse(ok)
       /\ UNCHANGED <<snapshotVars, storeVars, presetVars, connectionVars>>
    \/ resetState /\ UNCHANGED <<snapshotVars, storeVars, presetVars, connectionVars>>

Spec == Init /\ [][Next]_vars

\* ExportDialog, with everything else at rest; its timers fire and its stop
\* requests settle as those of ExportPanel do
DialogNext ==
    \/ /\ \E f \in Forms :
             ExportDialogStartExport(f.selected, f.output_path, f.mix_source_name)
       /\ UNCHANGED <<snapshotVars, storeVars, presetVars, connectionVars>>
    \/ /\ \E req \in startReqs : \E resp \in StartResponses(req.n) :
             ExportDialogStartExportResponse(req, resp)
       /\ UNCHANGED <<snapshotVars, storeVars, presetVars, connectionVars>>
    \/ /\ \E tm \in timers : ExportDialogPoll(tm)
       /\ UNCHANGED <<snapshotVars, storeVars, presetVars, connectionVars>>
    \/ /\ \E r \in statusReqs : \E resp \in StatusResponses(r.task) :
             ExportDialogPollResponse(r, resp)
       /\ UNCHANGED <<snapshotVars, storeVars, presetVars, connectionVars>>
    \/ stopExport /\ UNCHANGED <<snapshotVars, storeVars, presetVars, connectionVars>>
    \/ /\ \E ok \in BOOLEAN : stopExportResponse(ok)
       /\ UNCHANGED <<snapshotVars, storeVars, presetVars, connectionVars>>

DialogSpec == Init /\ [][DialogNext]_vars

\* the snapshot collection, with the export orchestrator at rest
SnapshotNext ==
    \/ /\ \E available \in BOOLEAN : loadInitialSnapshots(available)
       /\ UNCHANGED <<exportVars, storeVars, presetVars, connectionVars>>
    \/ /\ \E name \in Names : createSnapshot(name)
       /\ UNCHANGED <<exportVars, storeVars, presetVars, connectionVars>>
    \/ /\ \E id \in SnapshotIds, name \in Names \cup {Undefined} : updateSnapshot(id, name)
       /\ UNCHANGED <<exportVars, storeVars, presetVars, connectionVars>>
    \/ /\ \E id \in SnapshotIds : deleteSnapshot(id)
       /\ UNCHANGED <<exportVars, storeVars, presetVars, connectionVars>>
    \/ /\ \E list \in saves, written \in BOOLEAN : saveSnapshots(list, written)
       /\ UNCHANGED <<exportVars, storeVars, presetVars, connectionVars>>

SnapshotSpec == Init /\ [][SnapshotNext]_vars

\* the snapshot collection of a session that has a snapshots.json already
ReopenSpec == ReopenInit /\ [][SnapshotNext]_vars

\* the hook state that StoreSpec leaves alone
hookVars == <<snapshots, isLoading, thrown, nCreated, saves, nSaves>>

\* the snapshot store on its own
StoreNext ==
    \/ /\ \E connected, readable \in BOOLEAN :
             SnapshotManagerLoadSnapshots(connected, readable)
       /\ UNCHANGED <<exportVars, hookVars, presetVars, connectionVars>>
    \/ /\ \E list \in StoreCollections, connected, mkdir \in BOOLEAN :
             \E written \in WrittenLengths(JsonStringify(list)) :
                SnapshotManagerSaveSnapshots(list, connected, mkdir, written)
       /\ UNCHANGED <<exportVars, hookVars, presetVars, connectionVars>>
    \/ /\ \E connected \in BOOLEAN, written \in WrittenLengths(JsonStringify(<<>>)) :
             clearAllSnapshots(connected, written)
       /\ UNCHANGED <<exportVars, hookVars, presetVars, connectionVars>>

StoreSpec == Init /\ [][StoreNext]_vars

\* the preset handlers, from an empty store
PresetNext ==
    \/ /\ \E text \in PresetTexts, readable \in BOOLEAN : handleSavePreset(text, readable)
       /\ UNCHANGED <<exportVars, snapshotVars, storeVars, connectionVars>>
    \/ /\ \E id \in PresetIds, text \in PresetTexts, readable \in BOOLEAN :
             saveEditingPreset(id, text, readable)
       /\ UNCHANGED <<exportVars, snapshotVars, storeVars, connectionVars>>
    \/ /\ \E id \in PresetIds, readable \in BOOLEAN : deletePreset(id, readable)
       /\ UNCHANGED <<exportVars, snapshotVars, storeVars, connectionVars>>
    \/ /\ \E doc \in ImportDocuments, readable \in BOOLEAN : importPresetsFromFile(doc, readable)
       /\ UNCHANGED <<exportVars, snapshotVars, storeVars, connectionVars>>
    \/ /\ \E op \in presetOps, writable, readable \in BOOLEAN : savePresets(op, writable, readable)
       /\ UNCHANGED <<exportVars, snapshotVars, storeVars, connectionVars>>

PresetSpec == Init /\ [][PresetNext]_vars

\* the preset list paged, over a store at rest
PageNext ==
    /\ \E page \in 1..MaxPage, readable \in BOOLEAN : loadPresets(page, readable)
    /\ UNCHANGED <<exportVars, snapshotVars, storeVars, connectionVars>>

PageSpec == PageInit /\ [][PageNext]_vars

\* the connection hook
ConnectionNext ==
    \/ /\ checkConnection
       /\ UNCHANGED <<exportVars, snapshotVars, storeVars, presetVars>>
    \/ /\ \E resp \in SessionInfoResponses : checkConnectionResponse(resp)
       /\ UNCHANGED <<exportVars, snapshotVars, storeVars, presetVars>>
    \/ /\ refreshTracks
       /\ UNCHANGED <<exportVars, snapshotVars, storeVars, presetVars>>
    \/ /\ \E resp \in TracksResponses : refreshTracksResponse(resp)
       /\ UNCHANGED <<exportVars, snapshotVars, storeVars, presetVars>>

ConnectionSpec == Init /\ [][ConnectionNext]_vars

TypeOK ==
    /\ isExporting \in BOOLEAN
    /\ success \in BOOLEAN
    /\ stopReqs \in 0..MaxStops
    /\ nStarts \in 0..MaxStarts
    /\ exportProgress.result \in Results
    /\ nCreated \in 0..MaxSnapshots
    /\ Cardinality(saves) <= MaxSaves
    /\ nSaves \in 0..MaxSaves
    /\ thrown \in {NoThrow, DuplicateName}
    /\ dir \in BOOLEAN
    /\ returned.ok \in BOOLEAN
    /\ nPresetOps \in 0..MaxPresetOps
    /\ Cardinality(presetOps) <= MaxPresetOps
    /\ resolved.ok \in BOOLEAN
    /\ isConnected \in BOOLEAN
    /\ loading \in BOOLEAN
    /\ tracks \in TrackLists
    /\ statusCalls \in 0..MaxChecks
    /\ trackCalls \in 0..MaxTrackCalls
    /\ nChecks \in 1..MaxChecks

(* ------------------------------ claims -------------------------------- *)

\* the three validation messages of startExport
ValidationMessages ==
    { "Please select snapshots to export", "Output Path is required",
      "Output Mix Source Name is required" }

\* a text with nothing but blanks in it
IsBlank(text) == \A i \in 1..Len(text) : text[i] = " "

\* the forms with no snapshot selected or with a required field left empty
InvalidForms ==
    { f \in Forms : f.selected = 0 \/ IsBlank(f.output_path) \/ IsBlank(f.mix_source_name) }

\* the state stopPolling leaves when it completes
ManuallyStopped == ~isExporting /\ error = "Export manually stopped" /\ ~success

\* C1: once stopPolling has been invoked for a task, no further
\* getExportStatus request is issued for that task.
C1_NoPollAfterCancel ==
    [][\A tm \in timers : poll(tm) => ~tm.stopped]_vars

\* C2: once stopPolling has completed, a status response for the cancelled
\* task leaves isExporting = false, error = 'Export manually stopped' and
\* success = false, whatever status it carries.
C2_StaysManuallyStopped ==
    [][\A r \in statusReqs : \A resp \in StatusResponses(r.task) :
          (ManuallyStopped /\ r.stopped /\ pollResponse(r, resp)) => ManuallyStopped']_vars

\* C3: a status response whose task is not the task of the held progress
\* object changes none of exportProgress, error, success, isExporting and
\* schedules no poll.
C3_StaleResponseDiscarded ==
    [][\A r \in statusReqs : \A resp \in StatusResponses(r.task) :
          (r.task # ActiveTask /\ pollResponse(r, resp))
             => UNCHANGED <<exportProgress, error, success, isExporting, timers>>]_vars

\* C4, as stated: at most one status request is in flight or scheduled.
C4_AtMostOnePoll == Cardinality(statusReqs) + Cardinality(timers) <= 1

\* C4, amended: for each task, at most one status request is in flight or
\* scheduled.
C4_AtMostOnePollPerTask == \A t \in TaskIds : Outstanding(t) <= 1

\* a poll loop has gone round once: its second request is in flight
C4_Witness ==
    /\ nStarts = 1 /\ nRunning = 1
    /\ \E r \in statusReqs : Outstanding(r.task) = 1

\* C5: a startExport with no snapshot selected, a blank output_path or a
\* blank mix_source_name reports a validation error and issues no gateway
\* call: a step taken with the button enabled either shows a validation
\* message and leaves every request and timer alone, or is no startExport of
\* an invalid form.
C5_ValidationShortCircuits ==
    [][\/ ~StartButtonEnabled
       \/ /\ error' \in ValidationMessages
          /\ UNCHANGED <<startReqs, statusReqs, stopReqs, timers, nStarts>>
       \/ \A f \in InvalidForms :
             ~startExport(f.selected, f.output_path, f.mix_source_name)]_vars

\* a validation error is shown and the gateway was never called
C5_Witness == error = "Output Mix Source Name is required" /\ nStarts = 0

\* C6: once a terminal status is held, the held status, error and success
\* are changed by startExport and resetState only.
C6_TerminalOutcomeFrozen ==
    [][( /\ exportProgress.status \in TerminalStatuses
         /\ ~resetState
         /\ ~\E f \in Forms : startExport(f.selected, f.output_path, f.mix_source_name) )
          => /\ exportProgress'.status = exportProgress.status
             /\ error' = error
             /\ success' = success]_vars

\* C7: while the latest run has not ended, been cancelled or been reset, a
\* startExport cannot be begun.
C7_NoStartWhileRunOpen == ~runClosed => ~StartButtonEnabled

\* C8: a completed response ends the poll loop of its task, sets success,
\* clears isExporting and leaves the response's ExportTask held as received.
C8_CompletedStopsPolling ==
    [][\A r \in statusReqs \ statusReqs' : \A resp \in StatusResponses(r.task) :
          (resp.kind = "ok" /\ resp.data.status = "completed" /\ pollResponse(r, resp))
             => /\ success' /\ ~isExporting'
                /\ exportProgress' = resp.data
                /\ \A x \in statusReqs' \cup timers' : x.task # r.task]_vars

\* running then completed: two status requests were made, none is left, and
\* the two files of the final response are held
C8_Witness ==
    /\ success /\ ~isExporting
    /\ exportProgress.status = "completed"
    /\ exportProgress.result.exported_files = <<"a.wav", "b.wav">>
    /\ nStarts = 1 /\ nRunning = 1
    /\ statusReqs = {} /\ timers = {}

\* C9: a failed or completed_with_errors response ends the poll loop of its
\* task, shows result.error_message or else the generic message, leaves
\* success as it was, clears isExporting and leaves the response's
\* ExportTask held as received.
C9_FailedStopsPolling ==
    [][\A r \in statusReqs \ statusReqs' : \A resp \in StatusResponses(r.task) :
          ( /\ resp.kind = "ok"
            /\ resp.data.status \in {"failed", "completed_with_errors"}
            /\ pollResponse(r, resp) )
             => /\ error' = IF /\ resp.data.result.present
                               /\ resp.data.result.error_message \notin {"undefined", ""}
                            THEN resp.data.result.error_message
                            ELSE "Error occurred during export"
                /\ success' = success /\ ~isExporting'
                /\ exportProgress' = resp.data
                /\ \A x \in statusReqs' \cup timers' : x.task # r.task]_vars

\* a failed task whose result carries a message is held, with its message
\* shown
C9_Witness ==
    /\ exportProgress.status = "failed"
    /\ exportProgress.result.present
    /\ error = "disk full"
    /\ ~success /\ ~isExporting

\* C10: a rejected or failed export/start leaves the gateway's message or
\* the generic one, isExporting = false, and no status request for it.
C10_RejectedStartFails ==
    [][\A req \in startReqs \ startReqs' : \A resp \in StartResponses(req.n) :
          ( /\ resp.kind = "throw" \/ ~resp.success \/ resp.task_id = NoTask
            /\ startExportResponse(req, resp) )
             => /\ error' = IF resp.kind = "ok" /\ resp.message \notin {"undefined", ""}
                            THEN resp.message
                            ELSE "Failed to start export task"
                /\ ~isExporting'
                /\ statusReqs' = statusReqs
                /\ \A x \in statusReqs' \cup timers' : x.task # req.n]_vars

\* the first export/start was rejected with a message
C10_Witness ==
    /\ error = "output path not writable"
    /\ ~isExporting
    /\ exportProgress = NullProgress
    /\ nStarts = 1 /\ startReqs = {} /\ statusReqs = {} /\ timers = {}

\* C11: a transport failure of getExportStatus ends the poll loop of its
\* task: the error is 'Failed to get export status', isExporting is false,
\* and the request is neither repeated nor rescheduled.
C11_StatusFailureStopsPolling ==
    [][\A r \in statusReqs \ statusReqs' :
          pollResponse(r, [kind |-> "throw", data |-> NullProgress])
             => /\ error' = "Failed to get export status"
                /\ ~isExporting'
                /\ \A x \in statusReqs' \cup timers' : x.task # r.task]_vars

\* the second status request of the only export failed in transport, and
\* nothing is left in flight or scheduled
C11_Witness ==
    /\ error = "Failed to get export status"
    /\ ~isExporting
    /\ nStarts = 1 /\ nRunning = 1
    /\ startReqs = {} /\ statusReqs = {} /\ timers = {}

\* C12: stopPolling leaves isExporting = false and error = 'Export manually
\* stopped' at once, before stopExportTask has answered.
C12_StoppedWithoutWaiting ==
    [][stopPolling => (~isExporting' /\ error' = "Export manually stopped")]_vars

\* C13: while the held status is pending or running, the progress held for
\* one task never decreases from one poll to the next.
C13_HeldProgressMonotone ==
    [][( /\ exportProgress.status \in {"pending", "running"}
         /\ exportProgress'.status \in {"pending", "running"}
         /\ exportProgress'.task_id = exportProgress.task_id )
          => exportProgress'.progress >= exportProgress.progress]_vars

\* a state that ends a run: a terminal status is held, or the run was
\* stopped by hand
TerminalState ==
    /\ ~isExporting
    /\ \/ exportProgress.status \in TerminalStatuses
       \/ error = "Export manually stopped"

\* C14: resetState can be invoked in every terminal state.
C14_ResetUsableAfterTerminal == TerminalState => ResetButtonShown

(* ------------------------- claims: snapshots -------------------------- *)

\* two names that differ at most in the case of their letters
EqualIgnoringCase(a, b) ==
    /\ Len(a) = Len(b)
    /\ \A i \in 1..Len(a) :
          a[i] = b[i] \/ {a[i], b[i]} \in {{"a", "A"}, {"b", "B"}}

\* the snapshot with this id, if there is one, has this name ignoring case
IsOwnName(id, name) ==
    \E i \in 1..Len(snapshots) :
       snapshots[i].id = id /\ EqualIgnoringCase(snapshots[i].name, name)

\* a snapshot with another id has this name ignoring case
IsNameOfOther(id, name) ==
    \E i \in 1..Len(snapshots) :
       snapshots[i].id # id /\ EqualIgnoringCase(snapshots[i].name, name)

\* the snapshots of a list whose id is not the given one, in their order
RECURSIVE Others(_, _)
Others(list, id) ==
    IF list = <<>> THEN <<>>
    ELSE IF Head(list).id = id THEN Others(Tail(list), id)
    ELSE <<Head(list)>> \o Others(Tail(list), id)

\* the error the claims expect of an update of an unknown id
NotFound == "not found"

\* C15: createSnapshot with a name that equals an existing snapshot's name
\* ignoring case throws the duplicate-name error, leaves the collection and
\* the file as they are and issues no save.
C15_DuplicateCreateFails ==
    [][\A name \in Names :
          ( /\ \E i \in 1..Len(snapshots) : EqualIgnoringCase(snapshots[i].name, name)
            /\ createSnapshot(name) )
             => /\ thrown' = DuplicateName
                /\ UNCHANGED <<snapshots, saves, file>>]_vars

\* the only snapshot is named 'a', its save is over, and the last call threw
\* the duplicate-name error
C15_Witness ==
    /\ thrown = DuplicateName
    /\ nCreated = 1 /\ Len(snapshots) = 1 /\ snapshots[1].name = <<"a">>
    /\ saves = {} /\ file # NoFile

\* C16: no two snapshots of the collection have names that are equal
\* ignoring case.
C16_NamesUnique ==
    \A i, j \in 1..Len(snapshots) :
       i # j => ~EqualIgnoringCase(snapshots[i].name, snapshots[j].name)

\* C17: updateSnapshot with an id that matches no snapshot throws a not-found
\* error and leaves the collection unchanged.
C17_UpdateUnknownFails ==
    [][\A id \in SnapshotIds, name \in Names \cup {Undefined} :
          ( /\ \A i \in 1..Len(snapshots) : snapshots[i].id # id
            /\ updateSnapshot(id, name) )
             => /\ thrown' = NotFound
                /\ snapshots' = snapshots]_vars

\* C18: renaming a snapshot to its own name, in any case of the letters,
\* throws no duplicate-name error; renaming it to the name of another
\* snapshot, ignoring case, throws it and changes nothing.
C18_RenameChecked ==
    [][\A id \in SnapshotIds, name \in Names :
          updateSnapshot(id, name)
             => /\ (IsOwnName(id, name) /\ ~IsNameOfOther(id, name))
                      => thrown' # DuplicateName
                /\ ((\E i \in 1..Len(snapshots) : snapshots[i].id = id)
                       /\ IsNameOfOther(id, name))
                      => /\ thrown' = DuplicateName
                         /\ UNCHANGED <<snapshots, saves, file>>]_vars

\* C19: deleteSnapshot throws nothing, leaves the other snapshots in their
\* order, with or without the id in the collection, and deleting the same
\* id once more changes nothing.
C19_DeleteIdempotent ==
    [][\A id \in SnapshotIds :
          deleteSnapshot(id)
             => /\ thrown' = NoThrow
                /\ snapshots' = Others(snapshots, id)
                /\ Without(snapshots', id) = snapshots']_vars

\* the first of two snapshots was deleted, the second is left
C19_Witness ==
    /\ nCreated = 2
    /\ Len(snapshots) = 1 /\ snapshots[1].id = SnapshotId(2)
    /\ thrown = NoThrow

\* C20: with storage available, a collection that saveSnapshots has written
\* is the collection loadSnapshots returns.
C20_SaveLoadRoundTrip ==
    [][\A list \in saves \ saves' :
          saveSnapshots(list, TRUE) => loadSnapshots(file', TRUE) = list]_vars

\* the collection made by two createSnapshot calls is in the file and loads
\* as it is held
C20_Witness ==
    /\ Len(snapshots) = 2 /\ snapshots[2].name = <<"A">>
    /\ saves = {}
    /\ file.exists
    /\ loadSnapshots(file, TRUE) = snapshots

(* ---------------------- claims: snapshot store ------------------------ *)

\* the collections whose JSON text is this content
CollectionsOf(content) == { list \in StoreCollections : JsonStringify(list) = content }

\* C21: loadSnapshots returns normally with a collection: the persisted
\* collection when a session is connected and the file holds one, the empty
\* collection when no session is connected, when there is no file, when the
\* read fails or when the content is no JSON document.
C21_LoadNeverFails ==
    [][\A connected, readable \in BOOLEAN :
          SnapshotManagerLoadSnapshots(connected, readable)
             => /\ returned'.ok
                /\ IF connected /\ readable /\ file.exists
                      /\ CollectionsOf(file.content) # {}
                   THEN returned'.value \in CollectionsOf(file.content)
                   ELSE returned'.value = <<>>]_vars

\* a file that a write left incomplete was loaded as the empty collection
C21_Witness ==
    /\ returned.op = "loadSnapshots" /\ returned.ok /\ returned.value = <<>>
    /\ file.exists /\ file.content # <<>>
    /\ CollectionsOf(file.content) = {}

\* C22: a saveSnapshots leaves either the file as it was or the file with
\* the complete new collection, whatever happens during the write.
C22_SaveIsAtomic ==
    [][\A list \in StoreCollections, connected, mkdir \in BOOLEAN :
          \A written \in WrittenLengths(JsonStringify(list)) :
             SnapshotManagerSaveSnapshots(list, connected, mkdir, written)
                => \/ file' = file
                   \/ file' = [exists |-> TRUE, content |-> JsonStringify(list)]]_vars

\* C23: clearAllSnapshots leaves the disk as saveSnapshots([]) leaves it and
\* returns what saveSnapshots([]) returns, in every environment.
C23_ClearIsSaveEmpty ==
    [][\A connected, mkdir \in BOOLEAN, written \in WrittenLengths(JsonStringify(<<>>)) :
          clearAllSnapshots(connected, written)
             => LET save == SaveOutcome(file, dir, <<>>, connected, mkdir, written) IN
                /\ file' = save.file
                /\ dir' = save.dir
                /\ returned'.ok = save.ok]_vars

\* C24: a saveSnapshots without a session writes nothing and returns false,
\* and a saveSnapshots that returns true has left the complete collection in
\* the file.
C24_SaveReportsFailure ==
    [][\A list \in StoreCollections, connected, mkdir \in BOOLEAN :
          \A written \in WrittenLengths(JsonStringify(list)) :
             SnapshotManagerSaveSnapshots(list, connected, mkdir, written)
                => /\ ~connected => (file' = file /\ dir' = dir /\ ~returned'.ok)
                   /\ returned'.ok
                        => /\ file' = [exists |-> TRUE, content |-> JsonStringify(list)]
                           /\ list \in CollectionsOf(file'.content)]_vars

\* a save without a session returned false and left no file
C24_Witness ==
    /\ returned.op = "saveSnapshots" /\ ~returned.ok
    /\ file = NoFile /\ ~dir

(* ------------------------- claims: presets ---------------------------- *)

\* the pages 1..p of a collection, one after the other
RECURSIVE PagesUpTo(_, _)
PagesUpTo(all, p) ==
    IF p = 0 THEN <<>>
    ELSE PagesUpTo(all, p - 1) \o PaginatedPresets(all, p).presets

\* C25: with page size 3, a page p of 1..ceil(n/3) of a store of n presets
\* holds the presets at positions (p-1)*3 .. min(p*3, n)-1 in store order,
\* totalCount is n, totalPages is ceil(n/3), and the pages 1..totalPages one
\* after the other are the whole collection.
C25_PagesPartitionStore ==
    [][\A page \in 1..MaxPage, readable \in BOOLEAN :
          loadPresets(page, readable)
             => LET all == getPresets(presetFile, presetLocal, readable)
                    n == Len(all)
                    pages == paginatedData'.totalPages
                    last == IF page * 3 < n THEN page * 3 ELSE n IN
                /\ paginatedData'.totalCount = n
                /\ pages * 3 >= n /\ (pages - 1) * 3 < n /\ pages >= 0
                /\ page <= pages =>
                      paginatedData'.presets =
                         [i \in 1..(last - (page - 1) * 3) |-> all[(page - 1) * 3 + i]]
                /\ PagesUpTo(all, pages) = all]_vars

\* page 3 of a store of 7 presets: one preset, the seventh
C25_Witness ==
    /\ paginatedData.totalCount = 7 /\ paginatedData.totalPages = 3
    /\ paginatedData.currentPage = 3
    /\ Len(paginatedData.presets) = 1 /\ paginatedData.presets[1].id = PresetId(7, 1)

\* the write a step issued, if it issued one
Issued == presetOps' \ presetOps

\* what the call of a step reports: the result its write will resolve with,
\* or the result it resolved with at once
Reported == IF Issued # {} THEN (CHOOSE op \in Issued : TRUE).result ELSE resolved'

\* the positions of the entries of a list that are no presets
NoPresetAt(entries) == { i \in 1..Len(entries) : validatePreset(entries[i]) # "valid" }
WellFormed(entries) == (1..Len(entries)) \ NoPresetAt(entries)

\* one report by index for each position of `malformed`, in list order
RECURSIVE ReportsByIndex(_, _, _)
ReportsByIndex(entries, i, malformed) ==
    IF i > Len(entries) THEN <<>>
    ELSE (IF i \in malformed
          THEN <<"Invalid preset at index " \o ToString(i - 1)>> ELSE <<>>)
         \o ReportsByIndex(entries, i + 1, malformed)

\* C26: an import of a list appends one preset for each well-formed entry
\* after the presets read, which stay as they are and in order, each with a
\* new id that is neither the entry's id nor an id in the store; it reports
\* each other entry by its index, and the count it reports is the number
\* of presets the list to be stored gained.
C26_ImportIsPartialAndAdditive ==
    [][\A doc \in ImportDocuments, readable \in BOOLEAN :
          (doc.kind = "list" /\ importPresetsFromFile(doc, readable))
             => LET existing == getPresets(presetFile, presetLocal, readable)
                    good == WellFormed(doc.entries)
                    stored == IF Issued # {} THEN (CHOOSE op \in Issued : TRUE).write
                                             ELSE existing
                    gained == Len(stored) - Len(existing) IN
                /\ Reported.imported = Cardinality(good)
                /\ Reported.errors = ReportsByIndex(doc.entries, 1, NoPresetAt(doc.entries))
                /\ gained = Reported.imported
                /\ SubSeq(stored, 1, Len(existing)) = existing
                /\ \A k \in 1..gained :
                      LET new == stored[Len(existing) + k] IN
                      /\ new.id # SourceId
                      /\ \A j \in 1..(Len(existing) + k - 1) : stored[j].id # new.id
                      /\ \E i \in good : new.name = doc.entries[i].name]_vars

\* C27: an import of a list, whatever its entries, reports success, with
\* one report by index for each entry that is no preset.
C27_ListNeverFailsWholesale ==
    [][\A doc \in ImportDocuments, readable \in BOOLEAN :
          (doc.kind = "list" /\ importPresetsFromFile(doc, readable))
             => /\ Reported.ok
                /\ Reported.errors = ReportsByIndex(doc.entries, 1, NoPresetAt(doc.entries))]_vars

\* a preset of `presets` other than `id` has `name`, case ignored
IsNameOfOtherPreset(presets, name, id) ==
    \E i \in 1..Len(presets) :
       presets[i].id # id /\ EqualIgnoringCase(presets[i].name, name)

\* C28: a handleSavePreset whose name is, case ignored, the name of a
\* preset in the store, and a saveEditingPreset whose name is, case ignored,
\* the name of another preset in the store, are rejected: they show an
\* error and write nothing.
C28_PresetNamesUniqueIgnoringCase ==
    [][\A text \in PresetTexts, readable \in BOOLEAN :
          LET presets == getPresets(presetFile, presetLocal, readable) IN
          /\ (handleSavePreset(text, readable)
                 /\ IsNameOfOtherPreset(presets, Trim(text), "undefined"))
                => (~resolved'.ok /\ UNCHANGED <<presetOps, nPresetOps>>)
          /\ \A id \in PresetIds :
                (saveEditingPreset(id, text, readable)
                    /\ IsNameOfOtherPreset(presets, Trim(text), id))
                   => (~resolved'.ok /\ UNCHANGED <<presetOps, nPresetOps>>)]_vars

\* the ids of the presets of a list
IdsOf(presets) == { presets[i].id : i \in 1..Len(presets) }

\* C29: the write of a savePreset, of an updatePreset or of an import, when
\* it completes, leaves in the store every preset that was in it: what
\* another operation stored since this one read the collection is kept.
C29_NoLostUpdate ==
    [][\A op \in presetOps, writable, readable \in BOOLEAN :
          (savePresets(op, writable, readable) /\ op.result.op # "deletePreset")
             => IdsOf(presetLocal.list) \subseteq IdsOf(presetLocal'.list)]_vars

\* C30: a deletePreset of an id that no preset of the store has returns
\* false and issues no write, and an updatePreset of such an id returns null
\* and issues no write; both leave the file and localStorage as they were.
C30_UnknownPresetIdWritesNothing ==
    [][\A id \in PresetIds, readable \in BOOLEAN :
          LET unknown == id \notin IdsOf(getPresets(presetFile, presetLocal, readable)) IN
          /\ (deletePreset(id, readable) /\ unknown)
                => /\ resolved' = Result("deletePreset", FALSE, 0, <<>>, NoPreset)
                   /\ UNCHANGED <<presetFile, presetLocal, presetOps, nPresetOps>>
          /\ \A text \in PresetTexts :
                (updatePreset(id, Trim(text), readable) /\ unknown)
                   => /\ resolved' = Result("updatePreset", FALSE, 0, <<>>, NoPreset)
                      /\ UNCHANGED <<presetFile, presetLocal, presetOps, nPresetOps>>]_vars

\* a deletePreset of an unknown id returned false over a store of one preset
C30_Witness ==
    /\ resolved = Result("deletePreset", FALSE, 0, <<>>, NoPreset)
    /\ Len(presetLocal.list) = 1 /\ presetFile = presetLocal
    /\ presetOps = {}

(* ------------------------ claims: connection -------------------------- *)

\* C31: checkStatus and getTracks never raise, whatever the request settles
\* with: the catch blocks of the hook are not entered, a status check whose
\* request failed in transport reports not connected, and a track request
\* whose request failed in transport reports the empty list.
C31_ReadPathsNeverFail ==
    [][/\ \A resp \in SessionInfoResponses :
             checkConnectionResponse(resp)
                => /\ ~checkStatus(resp).raised
                   /\ connectionError' # "Unable to connect to Pro Tools"
                   /\ resp.kind = "throw" => ~isConnected'
       /\ \A resp \in TracksResponses :
             refreshTracksResponse(resp)
                => /\ ~getTracks(resp).raised
                   /\ connectionError' # "Failed to get track list"
                   /\ resp.kind = "throw" => tracks' = <<>>]_vars

\* a status check has reported not connected after one that reported
\* connected, whose track request is still awaited
C31_Witness ==
    /\ ~isConnected /\ trackCalls > 0 /\ statusCalls = 0
    /\ connectionError = NoError

\* C40: while the session is not connected the track list is empty.
C40_NoTracksWhileDisconnected == ~isConnected => tracks = <<>>

(* ------------------------- claims: export, 2 -------------------------- *)

\* a status response for task t with a status that ends the run without a
\* result: cancelled, or a status the client does not know
EndingResponse(t, status) ==
    [kind |-> "ok",
     data |-> [task_id |-> t, status |-> status, progress |-> ProgressOf(t),
               result |-> NoResult]]

\* C32: a status response with status cancelled, or with a status outside
\* the six known ones, ends the poll loop of its task in either component:
\* isExporting is false, the error is 'Export was cancelled' or 'Unknown
\* export status: <value>', and no request or timer of the task is left.
C32_UnknownStatusStopsPolling ==
    [][\A r \in statusReqs \ statusReqs' : \A status \in {"cancelled", "paused"} :
          (\/ pollResponse(r, EndingResponse(r.task, status))
           \/ ExportDialogPollResponse(r, EndingResponse(r.task, status)))
             => /\ ~isExporting'
                /\ error' = IF status = "cancelled" THEN "Export was cancelled"
                                                    ELSE "Unknown export status: " \o status
                /\ \A x \in statusReqs' \cup timers' : x.task # r.task]_vars

\* C33: while isExporting is true something is under way that will end the
\* run or continue it: an export/start or status request awaiting its
\* response, a poll timer, or the stop request of a cancel.
C33_NeverStuck ==
    isExporting => (startReqs # {} \/ statusReqs # {} \/ timers # {} \/ stopReqs > 0)

\* C34: when the orchestrator is manually stopped and the response of the
\* latest export/start arrives, no status request is issued and the
\* orchestrator stays manually stopped.
C34_NoPollAfterCancelledSubmit ==
    [][\A req \in startReqs \ startReqs' : \A resp \in StartResponses(req.n) :
          (ManuallyStopped /\ req.n = nStarts /\ startExportResponse(req, resp))
             => (statusReqs' = statusReqs /\ ManuallyStopped')]_vars

\* C35: success is never set next to an error or while isExporting is true.
C35_SuccessExcludesError == success => (error = NoError /\ ~isExporting)

(* ------------------------ claims: snapshots, 2 ------------------------ *)

\* C36: once the file holds the collection in memory, a save that
\* completes later does not put another collection in its place: the saves
\* take effect in the order of the changes that issued them.
C36_SavesLandInOrder ==
    [][\A list \in saves \ saves' :
          (/\ file = WriteFile(file, JsonStringify(snapshots))
           /\ saveSnapshots(list, TRUE))
             => file' = WriteFile(file, JsonStringify(snapshots))]_vars

\* the ids of the snapshots of a collection
SnapshotIdsOf(list) == { list[i].id : i \in 1..Len(list) }

\* C37: the snapshot persisted by an earlier run, which no deleteSnapshot
\* names, stays in the file whatever save completes, and the resolution of
\* the initial load keeps in memory every snapshot created before it.
C37_NothingLostToInitialLoad ==
    [][/\ \A list \in saves \ saves', written \in BOOLEAN :
             saveSnapshots(list, written)
                => PersistedSnapshot.id \in SnapshotIdsOf(loadSnapshots(file', TRUE))
       /\ \A available \in BOOLEAN :
             loadInitialSnapshots(available)
                => SnapshotIdsOf(snapshots) \subseteq SnapshotIdsOf(snapshots')]_vars

C38_GetPresetsReturnsWhatWasWritten ==
    [][\A op \in presetOps, writable, readable \in BOOLEAN :
          savePresets(op, writable, readable)
             => getPresets(presetFile', presetLocal', readable) = op.write]_vars

====
